---------------------------- MODULE Spec2Model ----------------------------
(***************************************************************************)
(* A model of ring-zk: the BDLOP-style commitment scheme over              *)
(* R_q = Z_q[X]/(X^N + 1) and its three Sigma protocols (Proof of Opening, *)
(* Proof of Linear Relation, Proof of Sum).                                *)
(*                                                                         *)
(* Ring elements are sequences of DegN coefficients held in the centred    *)
(* representation of Z_Qmod.  The entropy source `rng` is an explicit      *)
(* state object threaded through every sampling call in source order: a    *)
(* cyclic tape of raw words and a read position.                           *)
(***************************************************************************)
EXTENDS Integers, Sequences, FiniteSets, TLC

(***************************************************************************)
(* Bounds of the model.                                                    *)
(***************************************************************************)
\* Ring degree N (const generic of every type; 4 and 16 in the tests).
DegN == 2
\* Modulus of the coefficient type (ZqI64<3515337053> in the default preset),
\* scaled down; a prime congruent to 5 modulo 8.
Qmod == 181
\* Period of the entropy source's output stream.
TapeLen == 4
\* Largest number of terms of a Proof of Sum.
MaxV == 2
\* Iterations of commit's rejection loop that are followed.
MaxLoop == 2
\* Largest number of commitments made with one key outside a proof.
MaxStore == 2

(***************************************************************************)
(* Coefficient arithmetic (external ring library, coefficient type ZqI64). *)
(***************************************************************************)
Half == Qmod \div 2

\* Reduction of an integer into the centred range of Z_Qmod.
Zq(v) == ((v + Half) % Qmod) - Half

RECURSIVE SumTo(_, _)
\* f[1] + ... + f[n] over the integers.
SumTo(f, n) == IF n = 0 THEN 0 ELSE f[n] + SumTo(f, n - 1)

RECURSIVE SqrtFrom(_, _)
SqrtFrom(v, r) == IF (r + 1) * (r + 1) > v THEN r ELSE SqrtFrom(v, r + 1)

\* Integer square root (num::integer::Roots::sqrt): floor of the real root.
sqrt(v) == SqrtFrom(v, 0)

(***************************************************************************)
(* Polynomials of Z_Qmod[X]/(X^DegN + 1) (external ring library).          *)
(* p[i + 1] is the coefficient of X^i.                                     *)
(***************************************************************************)
Idx == 1..DegN

Polynomial_zero == [i \in Idx |-> 0]

Polynomial_one == [i \in Idx |-> IF i = 1 THEN Zq(1) ELSE 0]

\* Polynomial::from_coeffs: the list as coefficients, zero-padded to DegN.
from_coeffs(cs) == [i \in Idx |-> IF i <= Len(cs) THEN Zq(cs[i]) ELSE 0]

Polynomial_add(p, r) == [i \in Idx |-> Zq(p[i] + r[i])]

Polynomial_sub(p, r) == [i \in Idx |-> Zq(p[i] - r[i])]

\* Product modulo X^DegN + 1: the terms of degree >= DegN wrap with sign -1.
Polynomial_mul(p, r) ==
    [c \in Idx |->
        Zq(SumTo([i \in Idx |->
                     IF i <= c THEN p[i] * r[c - i + 1]
                               ELSE 0 - p[i] * r[c - i + 1 + DegN]], DegN))]

(***************************************************************************)
(* Norms (polynomial.rs).                                                  *)
(***************************************************************************)
Abs(v) == IF v < 0 THEN 0 - v ELSE v

norm_1(p) == SumTo([i \in Idx |-> Abs(p[i])], DegN)

norm_2(p) == sqrt(SumTo([i \in Idx |-> p[i] * p[i]], DegN))

RECURSIVE MaxTo(_, _)
MaxTo(f, n) == IF n = 1 THEN f[1]
               ELSE IF f[n] > MaxTo(f, n - 1) THEN f[n] ELSE MaxTo(f, n - 1)

norm_infinity(p) == MaxTo([i \in Idx |-> Abs(p[i])], DegN)

(***************************************************************************)
(* Matrices of ring elements (mat.rs): a sequence of rows, each a sequence *)
(* of polynomials, as the field `polynomials`.                             *)
(***************************************************************************)
from_element(m, n, element) == [i \in 1..m |-> [j \in 1..n |-> element]]

from_vec(polynomials) ==
    [i \in 1..Len(polynomials) |-> <<polynomials[i]>>]

dim(a) == <<Len(a), IF Len(a) = 0 THEN 0 ELSE Len(a[1])>>

\* The assertion of dot: the inner dimensions agree.
dot_ok(a, other) == dim(a)[2] = dim(other)[1]

RECURSIVE DotCell(_, _, _, _, _)
\* The accumulation of one cell of the product, for k = 1..n in this order.
DotCell(a, other, i, j, n) ==
    IF n = 0 THEN Polynomial_zero
    ELSE Polynomial_add(DotCell(a, other, i, j, n - 1),
                        Polynomial_mul(a[i][n], other[n][j]))

dot(a, other) ==
    [i \in 1..dim(a)[1] |->
        [j \in 1..dim(other)[2] |-> DotCell(a, other, i, j, dim(a)[2])]]

\* The assertions of add: both shapes agree.
add_ok(a, other) == dim(a) = dim(other)

add(a, other) ==
    [i \in 1..dim(a)[1] |->
        [j \in 1..dim(a)[2] |-> Polynomial_add(a[i][j], other[i][j])]]

\* extend_rows without its assertion.
extend_rows_ok_unchecked(a, other) == TRUE

\* The assertion of extend_rows: the column counts agree.
extend_rows_ok(a, other) == dim(a)[2] = dim(other)[2]

extend_rows(a, other) == a \o other

\* The assertion of extend_cols: the row counts agree.
extend_cols_ok(a, other) == dim(a)[1] = dim(other)[1]

extend_cols(a, other) == [i \in 1..Len(a) |-> a[i] \o other[i]]

\* Componentwise subtraction; shapes must agree as for add.
sub(a, other) ==
    [i \in 1..dim(a)[1] |->
        [j \in 1..dim(a)[2] |-> Polynomial_sub(a[i][j], other[i][j])]]

\* Every entry multiplied by the same ring element s.
componentwise_mul(a, s) ==
    [i \in 1..Len(a) |-> [j \in 1..Len(a[i]) |-> Polynomial_mul(a[i][j], s)]]

\* The element on the diagonal, zero elsewhere.
diag(m, n, element) ==
    [i \in 1..m |-> [j \in 1..n |-> IF i = j THEN element ELSE Polynomial_zero]]

\* The rows before index r and the rows from index r on.
split_rows(a, r) == <<SubSeq(a, 1, r), SubSeq(a, r + 1, Len(a))>>

\* An m x 1 matrix as a list of m polynomials.
one_d_mat_to_vec(a) == [i \in 1..Len(a) |-> a[i][1]]

(***************************************************************************)
(* Parameters (params.rs).                                                 *)
(***************************************************************************)
\* Params::default(), with q the halved modulus and kappa scaled to DegN.
Params_default == [q |-> Qmod \div 2, b |-> 1, n |-> 1, k |-> 3, l |-> 1, kappa |-> 1]

(***************************************************************************)
(* The entropy source (rand::Rng, passed to every sampling operation).     *)
(* A state [tape, pos]: the next raw word is tape[pos + 1], and the tape   *)
(* is read cyclically.                                                     *)
(***************************************************************************)
\* The raw words of the source, reduced to the range -b..b of the
\* coefficients of the randomness r.
Words == (0 - Params_default.b)..Params_default.b

Tapes == [1..TapeLen -> Words]

\* The raw word read i draws after the current one.
Word(rng, i) == rng.tape[((rng.pos + i) % Len(rng.tape)) + 1]

\* The source after n draws.
Skip(rng, n) == [rng EXCEPT !.pos = (@ + n) % Len(rng.tape)]

\* rng.random_bool(0.5)
random_bool(word) == word % 2 = 1

\* A uniform draw from the inclusive range lower..upper.
random_range(word, lower, upper) == lower + ((word - lower) % (upper - lower + 1))

\* slice.shuffle(rng) from position i down: Fisher-Yates, one draw for each
\* position i = Len(s), ..., 2, swapping it with a position drawn from 1..i.
RECURSIVE ShuffleFrom(_, _, _)
ShuffleFrom(rng, s, i) ==
    IF i < 2 THEN s
    ELSE LET j == random_range(Word(rng, 0), 1, i)
             swapped == [s EXCEPT ![i] = s[j], ![j] = s[i]]
         IN  ShuffleFrom(Skip(rng, 1), swapped, i - 1)

shuffle(rng, s) == [val |-> ShuffleFrom(rng, s, Len(s)),
                    rng |-> Skip(rng, IF Len(s) < 2 THEN 0 ELSE Len(s) - 1)]

(***************************************************************************)
(* Samplers (polynomial.rs, challenge_space.rs).  Each returns the value   *)
(* and the entropy source after its draws.                                 *)
(***************************************************************************)
random_polynomial_within(rng, bound) ==
    LET lower == 0 - bound
    IN  [val |-> [i \in Idx |-> Zq(random_range(Word(rng, i - 1), lower, bound))],
         rng |-> Skip(rng, DegN)]

\* The standard normal variate obtained from a raw word: integer valued,
\* with the negative words reaching twice as far into the tail.
standard_normal(word) == IF word < 0 THEN 2 * word ELSE word

\* Each coefficient is mean + std_dev * g for a standard normal variate g,
\* converted to the coefficient type.
random_polynomial_in_normal_distribution(rng, mean, std_dev) ==
    [val |-> [i \in Idx |-> Zq(mean + std_dev * standard_normal(Word(rng, i - 1)))],
     rng |-> Skip(rng, DegN)]

Min(a, b) == IF a < b THEN a ELSE b

\* random_polynomial_from_challenge_set setting every coefficient to 1 or -1.
random_polynomial_from_challenge_set_full(rng, kappa) ==
    LET coeffs == [i \in Idx |->
                     IF random_bool(Word(rng, i - 1)) THEN Zq(1) ELSE Zq(0 - 1)]
    IN  shuffle(Skip(rng, DegN), coeffs)

random_polynomial_from_challenge_set(rng, kappa) ==
    LET taken  == Min(kappa, DegN)
        coeffs == [i \in Idx |->
                     IF i <= taken
                     THEN IF random_bool(Word(rng, i - 1)) THEN Zq(1) ELSE Zq(0 - 1)
                     ELSE 0]
    IN  shuffle(Skip(rng, taken), coeffs)

\* The loop test of random_polynomial_from_challenge_set_difference that
\* returns c1 - c2 whatever c2 is.
difference_accepts_any(c1, c2) == TRUE

\* The loop test of random_polynomial_from_challenge_set_difference:
\* c1 - c2 is returned for the first c2 with c1 != c2.
\* The comparison of the loop on c1 alone: c1 != c1.
difference_accepts_self(c1, c2) == c1 # c1

difference_accepts(c1, c2) == c1 # c2

\* Mat::new_with(m, n, || random_polynomial_within(rng, bound)): the cells
\* are generated row by row.
new_with_within(rng, m, n, bound) ==
    [val |-> [i \in 1..m |-> [j \in 1..n |->
                random_polynomial_within(
                    Skip(rng, ((i - 1) * n + (j - 1)) * DegN), bound).val]],
     rng |-> Skip(rng, m * n * DegN)]

\* Mat::new_with(m, n, || random_polynomial_in_normal_distribution(rng, 0, s)).
new_with_normal(rng, m, n, std_dev) ==
    [val |-> [i \in 1..m |-> [j \in 1..n |->
                random_polynomial_in_normal_distribution(
                    Skip(rng, ((i - 1) * n + (j - 1)) * DegN), 0, std_dev).val]],
     rng |-> Skip(rng, m * n * DegN)]

(***************************************************************************)
(* Derived parameters and constraints (params.rs).                         *)
(***************************************************************************)
\* standard_deviation with b multiplied in before the root is taken:
\* 11 * kappa * sqrt(b^2 * k * deg_n).
standard_deviation_late_sqrt(params, deg_n) ==
    (11 * params.kappa) * sqrt(params.b * params.b * params.k * deg_n)

standard_deviation(params, deg_n) ==
    params.b * (11 * params.kappa) * sqrt(params.k * deg_n)

check_commit_constraint(params, r) ==
    LET sigma      == standard_deviation(params, DegN)
        constraint == 4 * sigma * sqrt(DegN)
    IN  \A i \in 1..Len(r) : \A j \in 1..Len(r[i]) : norm_2(r[i][j]) <= constraint

\* check_verify_constraint with the bound of the commitment constraint.
check_verify_constraint_loose(params, r) ==
    LET sigma      == standard_deviation(params, DegN)
        constraint == 4 * sigma * sqrt(DegN)
    IN  \A i \in 1..Len(r) : \A j \in 1..Len(r[i]) : norm_2(r[i][j]) <= constraint

check_verify_constraint(params, r) ==
    LET sigma      == standard_deviation(params, DegN)
        constraint == 2 * sigma * sqrt(DegN)
    IN  \A i \in 1..Len(r) : \A j \in 1..Len(r[i]) : norm_2(r[i][j]) <= constraint

\* prepare_value / prepare_scalar: integer lists wrapped as polynomials.
prepare_scalar(scalar) == from_coeffs(scalar)

prepare_value(value) == [i \in 1..Len(value) |-> from_coeffs(value[i])]

(***************************************************************************)
(* Commitment scheme (commit.rs).                                          *)
(***************************************************************************)
None == << >>

Some(f) == <<f>>

\* CommitmentKey::new with the blocks of a1 in the other order: [a1' I_n].
CommitmentKey_new_swapped(rng, params) ==
    LET q == params.q
        n == params.n
        k == params.k
        l == params.l
        a1_prime == new_with_within(rng, n, k - n, q)
        a2_prime == new_with_within(a1_prime.rng, l, k - n - l, q)
        a1 == extend_cols(a1_prime.val, diag(n, n, Polynomial_one))
        a2 == extend_cols(extend_cols(from_element(l, n, Polynomial_zero),
                                      diag(l, l, Polynomial_one)),
                          a2_prime.val)
    IN  [ck |-> [a1 |-> a1, a2 |-> a2], rng |-> a2_prime.rng]

\* CommitmentKey::new preceded by a check that the declared modulus is
\* congruent to 5 modulo 8.
CommitmentKey_new_ok_checked_q(params) ==
    /\ params.k >= params.n /\ params.k - params.n >= params.l
    /\ (2 * params.q + 1) % 8 = 5

\* The subtractions k - n and k - n - l of CommitmentKey::new are over usize:
\* they abort (overflow) when k < n or k - n < l.
CommitmentKey_new_ok(params) ==
    params.k >= params.n /\ params.k - params.n >= params.l

CommitmentKey_new(rng, params) ==
    LET q == params.q
        n == params.n
        k == params.k
        l == params.l
        a1_prime == new_with_within(rng, n, k - n, q)
        a2_prime == new_with_within(a1_prime.rng, l, k - n - l, q)
        a1 == extend_cols(diag(n, n, Polynomial_one), a1_prime.val)
        a2 == extend_cols(extend_cols(from_element(l, n, Polynomial_zero),
                                      diag(l, l, Polynomial_one)),
                          a2_prime.val)
    IN  [ck |-> [a1 |-> a1, a2 |-> a2], rng |-> a2_prime.rng]

\* [a1 a2]: the rows of a1 followed by the rows of a2.
StackedKey(ck) == extend_rows(ck.a1, ck.a2)

\* The key after a1.extend_rows(a2) applied to the key's own a1.
KeyAfterStacking_in_place(ck) == [ck EXCEPT !.a1 = extend_rows(ck.a1, ck.a2)]

\* The key after commit or verify built [a1 a2]: a clone of a1 is extended
\* (let mut a1 = self.a1.clone(); a1.extend_rows(self.a2.clone())), the key
\* keeps its a1.
KeyAfterStacking(ck) == ck

\* The value above the zeros: [x 0_n].
StackedValue_value_first(x, n) ==
    extend_rows(from_vec(x), from_element(n, 1, Polynomial_zero))

\* [0_n x]
StackedValue(x, n) == extend_rows(from_element(n, 1, Polynomial_zero), from_vec(x))

\* The loop of commit going round twice: the second draw of r is returned.
commit_draw_r_twice(rng, params, fuel) ==
    LET first == new_with_within(rng, params.k, 1, params.b)
    IN  new_with_within(first.rng, params.k, 1, params.b)

RECURSIVE commit_draw_r(_, _, _)
\* The loop of commit: draw r until the commitment constraint holds.
commit_draw_r(rng, params, fuel) ==
    LET tmp == new_with_within(rng, params.k, 1, params.b)
    IN  IF check_commit_constraint(params, tmp.val) \/ fuel = 0
        THEN tmp
        ELSE commit_draw_r(tmp.rng, params, fuel - 1)

\* The assertion of commit as a lower bound on the length only.
commit_ok_at_least(x, params) == params.l <= Len(x)

\* The assertion of commit.
commit_ok(x, params) == params.l = Len(x)

\* commit without the value: c = a * r.
CommitmentKey_commit_no_value(ck, rng, x, params) ==
    LET r == commit_draw_r(rng, params, MaxLoop)
        a == StackedKey(ck)
    IN  [opening    |-> [x |-> x, r |-> r.val, f |-> None],
         commitment |-> [c |-> dot(a, r.val)],
         rng        |-> r.rng]

CommitmentKey_commit(ck, rng, x, params) ==
    LET r == commit_draw_r(rng, params, MaxLoop)
        a == StackedKey(ck)
        z == StackedValue(x, params.n)
        c == add(dot(a, r.val), z)
    IN  [opening    |-> [x |-> x, r |-> r.val, f |-> None],
         commitment |-> [c |-> c],
         rng        |-> r.rng]

\* verify comparing the top n rows (c1) only.
Commitment_verify_c1_only(commitment, opening, ck, params) ==
    LET x == opening.x
        r == opening.r
        a == StackedKey(ck)
        z == StackedValue(x, params.n)
    IN  IF ~check_commit_constraint(params, r) THEN FALSE
        ELSE split_rows(add(dot(a, r), z), params.n)[1]
               = split_rows(commitment.c, params.n)[1]

\* verify that takes every opening as one with f = None.
Commitment_verify_ignoring_f(commitment, opening, ck, params) ==
    LET x == opening.x
        r == opening.r
        a == StackedKey(ck)
        z == StackedValue(x, params.n)
    IN  IF ~check_commit_constraint(params, r) THEN FALSE
        ELSE add(dot(a, r), z) = commitment.c

Commitment_verify(commitment, opening, ck, params) ==
    LET x == opening.x
        r == opening.r
        f == opening.f
        a == StackedKey(ck)
        z == StackedValue(x, params.n)
    IN  IF ~check_commit_constraint(params, r) THEN FALSE
        ELSE IF f # None
             THEN componentwise_mul(commitment.c, f[1])
                    = add(dot(a, r), componentwise_mul(z, f[1]))
             ELSE add(dot(a, r), z) = commitment.c

c1_c2(commitment, params) == split_rows(commitment.c, params.n)

(***************************************************************************)
(* Proof of Opening (prove/open.rs).                                       *)
(***************************************************************************)
OpenProofProver_commit(ck, params, rng, x) ==
    LET com == CommitmentKey_commit(ck, rng, x, params)
        y   == new_with_normal(com.rng, params.k, 1, standard_deviation(params, DegN))
        t   == one_d_mat_to_vec(dot(ck.a1, y.val))
    IN  [context    |-> [opening |-> com.opening, y |-> y.val],
         commitment |-> [c |-> com.commitment, t |-> t],
         rng        |-> y.rng]

\* create_response subtracting d * r: z = y - d * r.
OpenProofProver_create_response_minus(context, challenge) ==
    [z |-> sub(context.y, componentwise_mul(context.opening.r, challenge.d))]

OpenProofProver_create_response(context, challenge) ==
    [z |-> add(context.y, componentwise_mul(context.opening.r, challenge.d))]

\* generate_challenge keeping the bottom rows of c in the context.
OpenProofVerifier_generate_challenge_bottom_rows(params, rng, commitment) ==
    LET d == random_polynomial_from_challenge_set(rng, params.kappa)
        c2 == c1_c2(commitment.c, params)[2]
    IN  [context   |-> [c1 |-> c2, t |-> commitment.t, d |-> d.val],
         challenge |-> [d |-> d.val],
         rng       |-> d.rng]

OpenProofVerifier_generate_challenge(params, rng, commitment) ==
    LET d == random_polynomial_from_challenge_set(rng, params.kappa)
        c1 == c1_c2(commitment.c, params)[1]
    IN  [context   |-> [c1 |-> c1, t |-> commitment.t, d |-> d.val],
         challenge |-> [d |-> d.val],
         rng       |-> d.rng]

\* verify without the norm check on z.
OpenProofVerifier_verify_no_norm(ck, params, response, context) ==
    dot(ck.a1, response.z)
        = add(from_vec(context.t), componentwise_mul(context.c1, context.d))

OpenProofVerifier_verify(ck, params, response, context) ==
    IF ~check_verify_constraint(params, response.z) THEN FALSE
    ELSE LET lhs == dot(ck.a1, response.z)
             rhs == add(from_vec(context.t), componentwise_mul(context.c1, context.d))
         IN  lhs = rhs

(***************************************************************************)
(* Proof of Linear Relation (prove/linear.rs).                             *)
(***************************************************************************)
\* commit with c' committing to x itself instead of g * x.
LinearProofProver_commit_plain_value(ck, params, rng, g, x) ==
    LET p   == CommitmentKey_commit(ck, rng, x, params)
        o   == CommitmentKey_commit(ck, p.rng, x, params)
        y   == new_with_normal(o.rng, params.k, 1, standard_deviation(params, DegN))
        yp  == new_with_normal(y.rng, params.k, 1, standard_deviation(params, DegN))
        t   == one_d_mat_to_vec(dot(ck.a1, y.val))
        tp  == one_d_mat_to_vec(dot(ck.a1, yp.val))
        u   == sub(componentwise_mul(dot(ck.a2, y.val), g), dot(ck.a2, yp.val))
    IN  [context    |-> [opening |-> o.opening, opening_p |-> p.opening,
                         y |-> y.val, yp |-> yp.val],
         commitment |-> [c |-> o.commitment, cp |-> p.commitment, g |-> g,
                         t |-> t, tp |-> tp, u |-> u],
         rng        |-> yp.rng]

LinearProofProver_commit(ck, params, rng, g, x) ==
    LET gx  == [i \in 1..Len(x) |-> Polynomial_mul(x[i], g)]
        p   == CommitmentKey_commit(ck, rng, gx, params)
        o   == CommitmentKey_commit(ck, p.rng, x, params)
        y   == new_with_normal(o.rng, params.k, 1, standard_deviation(params, DegN))
        yp  == new_with_normal(y.rng, params.k, 1, standard_deviation(params, DegN))
        t   == one_d_mat_to_vec(dot(ck.a1, y.val))
        tp  == one_d_mat_to_vec(dot(ck.a1, yp.val))
        u   == sub(componentwise_mul(dot(ck.a2, y.val), g), dot(ck.a2, yp.val))
    IN  [context    |-> [opening |-> o.opening, opening_p |-> p.opening,
                         y |-> y.val, yp |-> yp.val],
         commitment |-> [c |-> o.commitment, cp |-> p.commitment, g |-> g,
                         t |-> t, tp |-> tp, u |-> u],
         rng        |-> yp.rng]

LinearProofProver_create_response(context, challenge) ==
    [z  |-> add(context.y, componentwise_mul(context.opening.r, challenge.d)),
     zp |-> add(context.yp, componentwise_mul(context.opening_p.r, challenge.d))]

LinearProofVerifier_generate_challenge(params, rng, commitment) ==
    LET d   == random_polynomial_from_challenge_set(rng, params.kappa)
        c   == c1_c2(commitment.c, params)
        cp  == c1_c2(commitment.cp, params)
    IN  [context   |-> [c1 |-> c[1], c2 |-> c[2], c1p |-> cp[1], c2p |-> cp[2],
                        g |-> commitment.g, t |-> commitment.t,
                        tp |-> commitment.tp, u |-> commitment.u, d |-> d.val],
         challenge |-> [d |-> d.val],
         rng       |-> d.rng]

\* verify without the equation that ties z and z' together.
LinearProofVerifier_verify_two_equations(ck, params, response, context) ==
    IF ~check_verify_constraint(params, response.z) THEN FALSE
    ELSE IF ~check_verify_constraint(params, response.zp) THEN FALSE
    ELSE IF dot(ck.a1, response.z)
              # add(from_vec(context.t), componentwise_mul(context.c1, context.d))
         THEN FALSE
    ELSE dot(ck.a1, response.zp)
           = add(from_vec(context.tp), componentwise_mul(context.c1p, context.d))

LinearProofVerifier_verify(ck, params, response, context) ==
    IF ~check_verify_constraint(params, response.z) THEN FALSE
    ELSE IF ~check_verify_constraint(params, response.zp) THEN FALSE
    ELSE IF dot(ck.a1, response.z)
              # add(from_vec(context.t), componentwise_mul(context.c1, context.d))
         THEN FALSE
    ELSE IF dot(ck.a1, response.zp)
              # add(from_vec(context.tp), componentwise_mul(context.c1p, context.d))
         THEN FALSE
    ELSE LET lhs == sub(componentwise_mul(dot(ck.a2, response.z), context.g),
                        dot(ck.a2, response.zp))
             rhs == add(componentwise_mul(
                            sub(componentwise_mul(context.c2, context.g), context.c2p),
                            context.d),
                        context.u)
         IN  lhs = rhs

(***************************************************************************)
(* Proof of Sum (prove/sum.rs).                                            *)
(***************************************************************************)
RECURSIVE reduce_add(_, _)
\* iter.reduce(|acc, x| acc.add(&x)) over the first n >= 1 items.
reduce_add(items, n) ==
    IF n = 1 THEN items[1] ELSE add(reduce_add(items, n - 1), items[n])

\* Whether every add of that reduce passes its shape assertion.
reduce_add_ok(items, n) == \A i \in 2..n : add_ok(items[1], items[i])

RECURSIVE commit_each(_, _, _, _, _)
\* xs.into_iter().map(|x| ck.commit(rng, x, params)).unzip(), first n items.
commit_each(ck, rng, xs, params, n) ==
    IF n = 0 THEN [openings |-> << >>, cs |-> << >>, rng |-> rng]
    ELSE LET before == commit_each(ck, rng, xs, params, n - 1)
             this   == CommitmentKey_commit(ck, before.rng, xs[n], params)
         IN  [openings |-> Append(before.openings, this.opening),
              cs       |-> Append(before.cs, this.commitment),
              rng      |-> this.rng]

\* assert!(!gs.is_empty()) without the comparison of the lengths.
SumProofProver_commit_assert_nonempty(gs, xs) == gs # << >>

\* assert!(!gs.is_empty() && gs.len() == xs.len())
SumProofProver_commit_assert(gs, xs) == gs # << >> /\ Len(gs) = Len(xs)

\* The assertions met by SumProofProver::commit, in the order it meets them:
\* the one on gs and xs, the unwrap of the sum over zip(xs, gs), those of
\* add while summing, those of each commit.
SumProofProver_commit_ok(params, gs, xs) ==
    /\ SumProofProver_commit_assert(gs, xs)
    /\ Min(Len(xs), Len(gs)) >= 1
    /\ reduce_add_ok([i \in 1..Len(xs) |-> from_vec(xs[i])], Min(Len(xs), Len(gs)))
    /\ commit_ok(xs[1], params)
    /\ \A i \in 1..Len(xs) : commit_ok(xs[i], params)

\* commit drawing yp before the ys.
SumProofProver_commit_yp_first(ck, params, rng, gs, xs) ==
    LET v   == Len(gs)
        vz  == Min(Len(xs), Len(gs))
        sigma == standard_deviation(params, DegN)
        xp  == one_d_mat_to_vec(
                 reduce_add([i \in 1..vz |-> componentwise_mul(from_vec(xs[i]), gs[i])], vz))
        p   == CommitmentKey_commit(ck, rng, xp, params)
        o   == commit_each(ck, p.rng, xs, params, Len(xs))
        ys  == [i \in 1..v |->
                  new_with_normal(Skip(o.rng, i * params.k * DegN),
                                  params.k, 1, sigma).val]
        yp0 == new_with_normal(o.rng, params.k, 1, sigma)
        yp  == [val |-> yp0.val, rng |-> Skip(o.rng, (v + 1) * params.k * DegN)]
        ts  == [i \in 1..v |-> one_d_mat_to_vec(dot(ck.a1, ys[i]))]
        tp  == one_d_mat_to_vec(dot(ck.a1, yp.val))
        u   == sub(reduce_add([i \in 1..v |->
                                 componentwise_mul(dot(ck.a2, ys[i]), gs[i])], v),
                   dot(ck.a2, yp.val))
    IN  [context    |-> [openings |-> o.openings, opening_p |-> p.opening,
                         yp |-> yp.val, ys |-> ys],
         commitment |-> [cp |-> p.commitment, cs |-> o.cs, gs |-> gs,
                         tp |-> tp, ts |-> ts, u |-> u],
         rng        |-> yp.rng]

SumProofProver_commit(ck, params, rng, gs, xs) ==
    LET v   == Len(gs)
        vz  == Min(Len(xs), Len(gs))
        sigma == standard_deviation(params, DegN)
        xp  == one_d_mat_to_vec(
                 reduce_add([i \in 1..vz |-> componentwise_mul(from_vec(xs[i]), gs[i])], vz))
        p   == CommitmentKey_commit(ck, rng, xp, params)
        o   == commit_each(ck, p.rng, xs, params, Len(xs))
        ys  == [i \in 1..v |->
                  new_with_normal(Skip(o.rng, (i - 1) * params.k * DegN),
                                  params.k, 1, sigma).val]
        yp  == new_with_normal(Skip(o.rng, v * params.k * DegN), params.k, 1, sigma)
        ts  == [i \in 1..v |-> one_d_mat_to_vec(dot(ck.a1, ys[i]))]
        tp  == one_d_mat_to_vec(dot(ck.a1, yp.val))
        u   == sub(reduce_add([i \in 1..v |->
                                 componentwise_mul(dot(ck.a2, ys[i]), gs[i])], v),
                   dot(ck.a2, yp.val))
    IN  [context    |-> [openings |-> o.openings, opening_p |-> p.opening,
                         yp |-> yp.val, ys |-> ys],
         commitment |-> [cp |-> p.commitment, cs |-> o.cs, gs |-> gs,
                         tp |-> tp, ts |-> ts, u |-> u],
         rng        |-> yp.rng]

SumProofProver_create_response(context, challenge) ==
    [zs |-> [i \in 1..Min(Len(context.ys), Len(context.openings)) |->
               add(context.ys[i],
                   componentwise_mul(context.openings[i].r, challenge.d))],
     zp |-> add(context.yp, componentwise_mul(context.opening_p.r, challenge.d))]

SumProofVerifier_generate_challenge(params, rng, commitment) ==
    LET d   == random_polynomial_from_challenge_set(rng, params.kappa)
        cs  == [i \in 1..Len(commitment.cs) |-> c1_c2(commitment.cs[i], params)]
        cp  == c1_c2(commitment.cp, params)
    IN  [context   |-> [c1p |-> cp[1], c2p |-> cp[2], cs |-> cs,
                        gs |-> commitment.gs, ts |-> commitment.ts,
                        tp |-> commitment.tp, u |-> commitment.u, d |-> d.val],
         challenge |-> [d |-> d.val],
         rng       |-> d.rng]

\* The outcome of SumProofVerifier::verify: "true", "false", or "panic" when
\* an unwrap of an empty reduce is reached.
SumProofVerifier_verify(ck, params, response, context) ==
    LET zs == response.zs
        zp == response.zp
        nz == Min(Len(zs), Len(context.gs))
        nc == Min(Len(context.cs), Len(context.gs))
        lhs1 == [i \in 1..Len(zs) |-> dot(ck.a1, zs[i])]
        rhs1 == [i \in 1..Min(Len(context.cs), Len(context.ts)) |->
                   add(from_vec(context.ts[i]),
                       componentwise_mul(context.cs[i][1], context.d))]
        lhs3 == sub(reduce_add([i \in 1..nz |->
                                  componentwise_mul(dot(ck.a2, zs[i]), context.gs[i])], nz),
                    dot(ck.a2, zp))
        rhs3 == add(componentwise_mul(
                        sub(reduce_add([i \in 1..nc |->
                                          componentwise_mul(context.cs[i][2], context.gs[i])],
                                       nc),
                            context.c2p),
                        context.d),
                    context.u)
    IN  IF ~(\A i \in 1..Len(zs) : check_verify_constraint(params, zs[i])) THEN "false"
        ELSE IF ~check_verify_constraint(params, zp) THEN "false"
        ELSE IF Len(zs) # Len(context.ts) /\ Len(zs) # Len(context.cs) THEN "false"
        ELSE IF lhs1 # rhs1 THEN "false"
        ELSE IF dot(ck.a1, zp)
                  # add(from_vec(context.tp), componentwise_mul(context.c1p, context.d))
             THEN "false"
        ELSE IF nz = 0 \/ nc = 0 THEN "panic"
        ELSE IF lhs3 = rhs3 THEN "true" ELSE "false"

(***************************************************************************)
(* Caller-provided inputs.                                                 *)
(***************************************************************************)
\* Integer lists handed to prepare_value / prepare_scalar: 1 and X.
CoeffLists == {<<1>>, <<0, 1>>}

Scalars == {prepare_scalar(c) : c \in CoeffLists}

\* Values of the right length l, the empty value and a value of length l + 1.
Values(l) ==
    [1..l -> Scalars] \cup {<< >>} \cup {[i \in 1..(l + 1) |-> Polynomial_one]}

\* Lists of at most MaxV scalars, alternating between two scalars g and h.
ScalarLists ==
    {[i \in 1..v |-> IF i % 2 = 1 THEN g ELSE h] :
        v \in 0..MaxV, g \in Scalars, h \in Scalars}

\* The values of a list alternate between two values x and y.
ValueLists(l) ==
    {[i \in 1..v |-> IF i % 2 = 1 THEN x ELSE y] :
        v \in 0..MaxV, x \in Values(l), y \in Values(l)}

(***************************************************************************)
(* State.                                                                  *)
(***************************************************************************)
VARIABLES
    params,    \* the Params shared by every prover and verifier
    ck,        \* the CommitmentKey, once generated
    rng,       \* the entropy source
    proto,     \* what the run exercises: "commit", "open", "linear" or "sum"
    pc,        \* position in the run
    arg,       \* the arguments of the last commit call
    store,     \* the (opening, commitment) pairs returned by CommitmentKey::commit
    check,     \* the last call store[j].commitment.verify(store[i].opening)
    rctx,      \* the prover's ResponseContext
    com,       \* the proof commitment sent to the verifier
    vctx,      \* the verifier's VerificationContext
    chal,      \* the challenge sent to the prover
    resp,      \* the response handed to verify
    result,    \* outcome of the last verify: "none", "true", "false", "panic"
    accepted,  \* outcome of verify on the prover's own response
    tamper,    \* how the response or the context was altered after that
    consumed,  \* the contexts create_response and verify were given so far
    sample     \* the state of a call of a challenge sampler

vars == <<params, ck, rng, proto, pc, arg, store, check,
          rctx, com, vctx, chal, resp, result, accepted, tamper, consumed, sample>>

NoVal == [none |-> TRUE]

Protos == {"commit", "open", "linear", "sum"}

Outcome(b) == IF b THEN "true" ELSE "false"


Init ==
    /\ params = Params_default
    /\ ck = NoVal
    /\ rng \in {[tape |-> t, pos |-> 0] : t \in Tapes}
    /\ proto \in Protos
    /\ pc = "new"
    /\ arg = NoVal
    /\ store = << >>
    /\ check = NoVal
    /\ rctx = NoVal
    /\ com = NoVal
    /\ vctx = NoVal
    /\ chal = NoVal
    /\ resp = NoVal
    /\ result = "none"
    /\ accepted = "none"
    /\ tamper = NoVal
    /\ consumed = {}
    /\ sample = NoVal

proofVars == <<rctx, com, vctx, chal, resp, result, accepted, tamper, consumed, sample>>

\* params.generate_commitment_key(rng)
generate_commitment_key ==
    /\ pc = "new"
    /\ proto \in Protos
    /\ IF ~CommitmentKey_new_ok(params)
       THEN /\ pc' = "aborted"
            /\ UNCHANGED <<ck, rng>>
       ELSE LET key == CommitmentKey_new(rng, params)
            IN  /\ ck' = key.ck
                /\ rng' = key.rng
                /\ pc' = "ready"
    /\ UNCHANGED <<params, proto, arg, store, check>>
    /\ UNCHANGED proofVars

\* ck.commit(rng, x, &params)
Commit(x) ==
    /\ proto = "commit"
    /\ pc = "ready"
    /\ Len(store) < MaxStore
    /\ arg' = [x |-> x]
    /\ IF ~commit_ok(x, params)
       THEN /\ pc' = "aborted"
            /\ UNCHANGED <<rng, store, ck>>
       ELSE LET out == CommitmentKey_commit(ck, rng, x, params)
            IN  /\ store' = Append(store, [opening |-> out.opening,
                                           commitment |-> out.commitment])
                /\ rng' = out.rng
                /\ ck' = KeyAfterStacking(ck)
                /\ pc' = pc
    /\ UNCHANGED <<params, proto, check>>
    /\ UNCHANGED proofVars

\* store[j].commitment.verify(&store[i].opening, &ck, &params)
Verify(i, j) ==
    /\ proto = "commit"
    /\ pc = "ready"
    /\ i \in 1..Len(store) /\ j \in 1..Len(store)
    /\ check' = [opening |-> i, commitment |-> j,
                 outcome |-> Outcome(Commitment_verify(store[j].commitment,
                                                       store[i].opening, ck, params))]
    /\ ck' = IF check_commit_constraint(params, store[i].opening.r)
             THEN KeyAfterStacking(ck)
             ELSE ck
    /\ UNCHANGED <<params, rng, proto, pc, arg, store>>
    /\ UNCHANGED proofVars

fixedVars == <<params, ck, proto, store, check, sample>>

\* What the commit of a prover leaves alone besides its key.
commitVars == <<params, proto, store, check, sample>>

\* OpenProofProver::commit(rng, x) replacing the commitment of a run whose
\* challenge is already out.
OpenCommit_after_challenge(x) ==
    /\ proto = "open"
    /\ pc \in {"ready", "challenged"}
    /\ arg' = [x |-> x]
    /\ IF ~commit_ok(x, params)
       THEN /\ pc' = "aborted"
            /\ UNCHANGED <<rng, rctx, com, ck>>
       ELSE LET out == OpenProofProver_commit(ck, params, rng, x)
            IN  /\ rctx' = out.context
                /\ com' = out.commitment
                /\ rng' = out.rng
                /\ ck' = KeyAfterStacking(ck)
                /\ pc' = "committed"
    /\ UNCHANGED commitVars
    /\ UNCHANGED <<vctx, chal, resp, result, accepted, tamper, consumed>>

\* OpenProofProver::commit(rng, x)
OpenCommit(x) ==
    /\ proto = "open"
    /\ pc = "ready"
    /\ arg' = [x |-> x]
    /\ IF ~commit_ok(x, params)
       THEN /\ pc' = "aborted"
            /\ UNCHANGED <<rng, rctx, com, ck>>
       ELSE LET out == OpenProofProver_commit(ck, params, rng, x)
            IN  /\ rctx' = out.context
                /\ com' = out.commitment
                /\ rng' = out.rng
                /\ ck' = KeyAfterStacking(ck)
                /\ pc' = "committed"
    /\ UNCHANGED commitVars
    /\ UNCHANGED <<vctx, chal, resp, result, accepted, tamper, consumed>>

\* LinearProofProver::commit(rng, g, x)
LinearCommit(g, x) ==
    /\ proto = "linear"
    /\ pc = "ready"
    /\ arg' = [g |-> g, x |-> x]
    /\ IF ~commit_ok([i \in 1..Len(x) |-> Polynomial_mul(x[i], g)], params)
       THEN /\ pc' = "aborted"
            /\ UNCHANGED <<rng, rctx, com, ck>>
       ELSE LET out == LinearProofProver_commit(ck, params, rng, g, x)
            IN  /\ rctx' = out.context
                /\ com' = out.commitment
                /\ rng' = out.rng
                /\ ck' = KeyAfterStacking(ck)
                /\ pc' = "committed"
    /\ UNCHANGED commitVars
    /\ UNCHANGED <<vctx, chal, resp, result, accepted, tamper, consumed>>

\* SumProofProver::commit(rng, gs, xs)
SumCommit(gs, xs) ==
    /\ proto = "sum"
    /\ pc = "ready"
    /\ arg' = [gs |-> gs, xs |-> xs]
    /\ IF ~SumProofProver_commit_ok(params, gs, xs)
       THEN /\ pc' = "aborted"
            /\ UNCHANGED <<rng, rctx, com, ck>>
       ELSE LET out == SumProofProver_commit(ck, params, rng, gs, xs)
            IN  /\ rctx' = out.context
                /\ com' = out.commitment
                /\ rng' = out.rng
                /\ ck' = KeyAfterStacking(ck)
                /\ pc' = "committed"
    /\ UNCHANGED commitVars
    /\ UNCHANGED <<vctx, chal, resp, result, accepted, tamper, consumed>>

\* verifier.generate_challenge(rng, commitment)
GenerateChallenge ==
    /\ pc = "committed"
    /\ LET out == CASE proto = "open" ->
                        OpenProofVerifier_generate_challenge(params, rng, com)
                    [] proto = "linear" ->
                        LinearProofVerifier_generate_challenge(params, rng, com)
                    [] proto = "sum" ->
                        SumProofVerifier_generate_challenge(params, rng, com)
       IN  /\ vctx' = out.context
           /\ chal' = out.challenge
           /\ rng' = out.rng
    /\ pc' = "challenged"
    /\ UNCHANGED fixedVars
    /\ UNCHANGED <<arg, rctx, com, resp, result, accepted, tamper, consumed>>

\* prover.create_response(context, challenge)
CreateResponse ==
    /\ pc = "challenged"
    /\ resp' = CASE proto = "open" -> OpenProofProver_create_response(rctx, chal)
                 [] proto = "linear" -> LinearProofProver_create_response(rctx, chal)
                 [] proto = "sum" -> SumProofProver_create_response(rctx, chal)
    /\ consumed' = consumed \cup {rctx}
    /\ pc' = "responded"
    /\ UNCHANGED fixedVars
    /\ UNCHANGED <<rng, arg, rctx, com, vctx, chal, result, accepted, tamper>>

\* The outcome of verifier.verify(response, context).
VerifyOutcome(response, context) ==
    CASE proto = "open" ->
           Outcome(OpenProofVerifier_verify(ck, params, response, context))
      [] proto = "linear" ->
           Outcome(LinearProofVerifier_verify(ck, params, response, context))
      [] proto = "sum" ->
           SumProofVerifier_verify(ck, params, response, context)

\* verifier.verify(response, context), on the prover's response and then
\* on the altered one.
ProofVerify ==
    /\ pc \in {"responded", "tampered"}
    /\ result' = VerifyOutcome(resp, vctx)
    /\ consumed' = consumed \cup {vctx}
    /\ pc' = IF pc = "responded" THEN "verified" ELSE "done"
    /\ UNCHANGED fixedVars
    /\ UNCHANGED <<rng, arg, rctx, com, vctx, chal, resp, accepted, tamper>>

(***************************************************************************)
(* Responses and contexts that do not come from the honest prover: the     *)
(* response (and, for the Proof of Sum, the lists of the context, which    *)
(* are copied from the prover's commitment) is altered before a second     *)
(* call of verify.  Every alteration keeps the dimensions of the matrices. *)
(***************************************************************************)
Deltas == {1, 0 - 1}

\* The matrix with delta added to coefficient idx of the entry in row `row`.
ChangeCoeff(z, row, idx, delta) ==
    [z EXCEPT ![row][1][idx] = Zq(@ + delta)]

\* The matrix with poly(1, 0, ..., 0) added to every entry.
AddOne(z) == add(z, from_element(dim(z)[1], dim(z)[2], from_coeffs(<<1>>)))

\* The matrix with every entry doubled.
Scale(z) == componentwise_mul(z, from_coeffs(<<2>>))

DropLast(s) == SubSeq(s, 1, Len(s) - 1)

RepeatLast(s) == Append(s, s[Len(s)])

\* Alterations of the lists of a Proof of Sum.
ListKinds == {"drop_z", "extra_z", "drop_t", "extra_t",
              "drop_c", "extra_c", "drop_g", "empty"}

TamperKinds ==
    {[kind |-> "coeff", row |-> i, idx |-> c, delta |-> e] :
        i \in 1..params.k, c \in Idx, e \in Deltas}
    \cup {[kind |-> "add_one"], [kind |-> "scale"]}
    \cup {[kind |-> w] : w \in ListKinds}

\* The response after alteration t.
TamperedResponse(t) ==
    CASE t.kind = "coeff" ->
           [resp EXCEPT !.z = ChangeCoeff(@, t.row, t.idx, t.delta)]
      [] t.kind = "add_one" ->
           (CASE proto = "open" -> [z |-> AddOne(resp.z)]
              [] proto = "linear" -> [z |-> AddOne(resp.z), zp |-> AddOne(resp.zp)]
              [] proto = "sum" -> [zs |-> [i \in 1..Len(resp.zs) |-> AddOne(resp.zs[i])],
                                   zp |-> AddOne(resp.zp)])
      [] t.kind = "scale" ->
           (CASE proto = "open" -> [z |-> Scale(resp.z)]
              [] proto = "linear" -> [z |-> Scale(resp.z), zp |-> Scale(resp.zp)]
              [] proto = "sum" -> [zs |-> [i \in 1..Len(resp.zs) |-> Scale(resp.zs[i])],
                                   zp |-> Scale(resp.zp)])
      [] t.kind = "drop_z" -> [resp EXCEPT !.zs = DropLast(@)]
      [] t.kind = "extra_z" -> [resp EXCEPT !.zs = RepeatLast(@)]
      [] t.kind = "empty" -> [resp EXCEPT !.zs = << >>]
      [] OTHER -> resp

TamperedContext(t) ==
    CASE t.kind = "drop_t" -> [vctx EXCEPT !.ts = DropLast(@)]
      [] t.kind = "extra_t" -> [vctx EXCEPT !.ts = RepeatLast(@)]
      [] t.kind = "drop_c" -> [vctx EXCEPT !.cs = DropLast(@)]
      [] t.kind = "extra_c" -> [vctx EXCEPT !.cs = RepeatLast(@)]
      [] t.kind = "drop_g" -> [vctx EXCEPT !.gs = DropLast(@)]
      [] t.kind = "empty" -> [vctx EXCEPT !.ts = << >>, !.cs = << >>, !.gs = << >>]
      [] OTHER -> vctx

\* A response (and context) other than the honest one reaches the verifier.
Tamper(t) ==
    /\ pc = "verified"
    /\ t.kind \in ListKinds => proto = "sum"
    /\ t.kind = "coeff" => proto # "sum"
    /\ accepted' = result
    /\ result' = "none"
    /\ tamper' = t
    /\ resp' = TamperedResponse(t)
    /\ vctx' = TamperedContext(t)
    /\ pc' = "tampered"
    /\ UNCHANGED fixedVars
    /\ UNCHANGED <<rng, arg, rctx, com, chal, consumed>>

Next ==
    \/ generate_commitment_key
    \/ \E x \in Values(params.l) : Commit(x)
    \/ \E i, j \in 1..MaxStore : Verify(i, j)
    \/ \E x \in Values(params.l) : OpenCommit(x)
    \/ \E g \in Scalars, x \in Values(params.l) : LinearCommit(g, x)
    \/ \E gs \in ScalarLists, xs \in ValueLists(params.l) : SumCommit(gs, xs)
    \/ GenerateChallenge
    \/ CreateResponse
    \/ ProofVerify
    \/ \E t \in TamperKinds : Tamper(t)

Spec == Init /\ [][Next]_vars

(***************************************************************************)
(* Parameter settings other than the default one, and the challenge        *)
(* samplers on their own.  All fields of Params are public, so a caller    *)
(* can build any setting.                                                  *)
(***************************************************************************)
\* (n, k, l) with k > n >= l >= 1.
KeyShapes ==
    {s \in (1..2) \X (2..4) \X (1..2) : s[2] > s[1] /\ s[1] >= s[3]}

\* The modulus q' a setting declares: Params.q holds q' divided by 2.
DeclaredModulus(p) == 2 * p.q + 1

\* Settings handed to generate_commitment_key and commit: the stored q is
\* the halved modulus or one less, b is 1 or 2, kappa is at least 1.
ParamsChoices ==
    {[q |-> qq, b |-> bb, n |-> s[1], k |-> s[2], l |-> s[3], kappa |-> ka] :
        qq \in {Params_default.q, Params_default.q - 1}, bb \in 1..2,
        s \in KeyShapes, ka \in 1..DegN}

\* Settings handed to the challenge samplers: every kappa <= N.
SampleParams == {[Params_default EXCEPT !.kappa = ka] : ka \in 0..DegN}

ParamInit ==
    /\ proto \in {"commit", "sample"}
    /\ params \in IF proto = "commit" THEN ParamsChoices ELSE SampleParams
    /\ ck = NoVal
    /\ rng \in {[tape |-> t, pos |-> 0] : t \in Tapes}
    /\ pc = "new"
    /\ arg = NoVal
    /\ store = << >>
    /\ check = NoVal
    /\ rctx = NoVal
    /\ com = NoVal
    /\ vctx = NoVal
    /\ chal = NoVal
    /\ resp = NoVal
    /\ result = "none"
    /\ accepted = "none"
    /\ tamper = NoVal
    /\ consumed = {}
    /\ sample = NoVal

\* The first ck.commit(rng, x, &params) with the key.
CommitOnce(x) == Len(store) = 0 /\ Commit(x)

\* commitment.verify(&opening, &ck, &params) on the pair of that commit.
VerifyOnce == check = NoVal /\ Verify(1, 1)

sampleFixed == <<params, ck, proto, arg, store, check,
                 rctx, com, vctx, chal, resp, result, accepted, tamper, consumed>>

\* random_polynomial_from_challenge_set(rng, kappa)
SampleChallengeSet ==
    /\ proto = "sample"
    /\ pc = "new"
    /\ LET c == random_polynomial_from_challenge_set(rng, params.kappa)
       IN  /\ sample' = [kind |-> "set", out |-> c.val]
           /\ rng' = c.rng
    /\ pc' = "sampled"
    /\ UNCHANGED sampleFixed

\* random_polynomial_from_challenge_set_difference(rng, kappa): c1 is drawn.
DifferenceBegin ==
    /\ proto = "sample"
    /\ pc = "new"
    /\ LET c1 == random_polynomial_from_challenge_set(rng, params.kappa)
       IN  /\ sample' = [kind |-> "difference", c1 |-> c1.val]
           /\ rng' = c1.rng
    /\ pc' = "drawing"
    /\ UNCHANGED sampleFixed

\* One iteration of its loop, the entropy source being in state r: c2 is
\* drawn, and c1 - c2 returned if c1 != c2.
DifferenceDrawFrom(r) ==
    /\ proto = "sample"
    /\ pc = "drawing"
    /\ LET c2 == random_polynomial_from_challenge_set(r, params.kappa)
       IN  /\ rng' = c2.rng
           /\ IF difference_accepts(sample.c1, c2.val)
              THEN /\ sample' = [kind |-> "difference", c1 |-> sample.c1,
                                 c2 |-> c2.val,
                                 out |-> Polynomial_sub(sample.c1, c2.val)]
                   /\ pc' = "sampled"
              ELSE /\ UNCHANGED sample
                   /\ pc' = "drawing"
    /\ UNCHANGED sampleFixed

DifferenceDraw == DifferenceDrawFrom(rng)

ParamNext ==
    \/ generate_commitment_key
    \/ \E x \in Values(params.l) : CommitOnce(x)
    \/ VerifyOnce
    \/ SampleChallengeSet
    \/ DifferenceBegin
    \/ DifferenceDraw

ParamSpec == ParamInit /\ [][ParamNext]_vars

(***************************************************************************)
(* The challenge-difference sampler over a fair entropy source: the words  *)
(* the source yields next are not determined by those it yielded before,   *)
(* and a draw that the source can yield is eventually yielded.             *)
(***************************************************************************)
FairInit == ParamInit /\ proto = "sample"

\* The words a draw of c2 may meet: 0 and 1, so that each coin of the
\* sampler can fall either way and each swap of the shuffle can go either
\* to the first or to the last position.
FairTapes == [1..TapeLen -> {w \in Words : w \in {0, 1}}]

\* One iteration of the loop on whatever words the source yields next.
FairDifferenceDraw ==
    \E t \in FairTapes : DifferenceDrawFrom([tape |-> t, pos |-> 0])

\* An iteration of the loop that returns.
DifferenceReturns == FairDifferenceDraw /\ pc' = "sampled"

FairNext ==
    \/ DifferenceBegin
    \/ FairDifferenceDraw

FairSpec ==
    /\ FairInit
    /\ [][FairNext]_vars
    /\ WF_vars(DifferenceBegin)
    /\ WF_vars(DifferenceReturns)

(***************************************************************************)
(* Openings with the additional polynomial f (commit.rs, Opening::f):      *)
(* commitments are made and verified, against openings as returned by      *)
(* commit (f = None) and against the same openings with f set.             *)
(***************************************************************************)
\* The polynomials f: 1, X and -1.
OpeningFs == Scalars \cup {from_coeffs(<<0 - 1>>)}

OpeningInit == Init /\ proto = "commit"

\* store[j].commitment.verify(&Opening { f: Some(f), ..store[i].opening }, &ck, &params)
VerifyWithF(i, j, f) ==
    /\ proto = "commit"
    /\ pc = "ready"
    /\ i \in 1..Len(store) /\ j \in 1..Len(store)
    /\ LET opening == [store[i].opening EXCEPT !.f = Some(f)]
       IN  check' = [opening |-> i, commitment |-> j, f |-> Some(f),
                     outcome |-> Outcome(Commitment_verify(store[j].commitment,
                                                           opening, ck, params))]
    /\ ck' = IF check_commit_constraint(params, store[i].opening.r)
             THEN KeyAfterStacking(ck)
             ELSE ck
    /\ UNCHANGED <<params, rng, proto, pc, arg, store>>
    /\ UNCHANGED proofVars

\* One of the first two calls of ck.commit(rng, x, &params).
CommitPair(x) == Len(store) < 2 /\ Commit(x)

OpeningNext ==
    \/ generate_commitment_key
    \/ \E x \in Values(params.l) : CommitPair(x)
    \/ \E i, j \in 1..2 : Verify(i, j)
    \/ \E i, j \in 1..2, f \in OpeningFs : VerifyWithF(i, j, f)

OpeningSpec == OpeningInit /\ [][OpeningNext]_vars

(***************************************************************************)
(* Two transcripts of one Proof of Opening: the response context of a run  *)
(* is answered for a second challenge, and the opening made of the two     *)
(* responses is handed to Commitment::verify.                              *)
(***************************************************************************)
ExtractInit == Init /\ proto = "open"

extractFixed == <<params, proto, arg, store, rctx, com, vctx, chal, resp,
                  result, accepted, tamper>>

\* verifier.generate_challenge(rng, commitment) a second time.
GenerateSecondChallenge ==
    /\ proto = "open"
    /\ pc = "responded"
    /\ LET out == OpenProofVerifier_generate_challenge(params, rng, com)
       IN  /\ sample' = [challenge |-> out.challenge]
           /\ rng' = out.rng
    /\ pc' = "rechallenged"
    /\ UNCHANGED extractFixed
    /\ UNCHANGED <<ck, check, consumed>>

\* prover.create_response(context, challenge) on the same context and the
\* second challenge.
CreateSecondResponse ==
    /\ proto = "open"
    /\ pc = "rechallenged"
    /\ sample' = [challenge |-> sample.challenge,
                  response  |-> OpenProofProver_create_response(rctx, sample.challenge)]
    /\ consumed' = consumed \cup {rctx}
    /\ pc' = "reanswered"
    /\ UNCHANGED extractFixed
    /\ UNCHANGED <<ck, rng, check>>

\* The opening made of two responses z, z2 to the challenges d, d2.
ExtractedOpening(x, z, z2, d, d2) ==
    [x |-> x, r |-> sub(z, z2), f |-> Some(Polynomial_sub(d, d2))]

\* commitment.c.verify(&opening, &ck, &params) on that opening, when the
\* two challenges differ.
VerifyExtracted ==
    /\ proto = "open"
    /\ pc = "reanswered"
    /\ chal.d # sample.challenge.d
    /\ LET opening == ExtractedOpening(rctx.opening.x, resp.z, sample.response.z,
                                       chal.d, sample.challenge.d)
       IN  /\ check' = [opening |-> opening,
                        outcome |-> Outcome(Commitment_verify(com.c, opening,
                                                              ck, params))]
           /\ ck' = IF check_commit_constraint(params, opening.r)
                    THEN KeyAfterStacking(ck)
                    ELSE ck
    /\ pc' = "extracted"
    /\ UNCHANGED extractFixed
    /\ UNCHANGED <<rng, consumed, sample>>

ExtractNext ==
    \/ generate_commitment_key
    \/ \E x \in Values(params.l) : OpenCommit(x)
    \/ GenerateChallenge
    \/ CreateResponse
    \/ GenerateSecondChallenge
    \/ CreateSecondResponse
    \/ VerifyExtracted

ExtractSpec == ExtractInit /\ [][ExtractNext]_vars

(***************************************************************************)
(* The matrix operations on their own (mat.rs), applied to two matrices    *)
(* of any shapes from 0 x 0 to 2 x 2 filled from the entropy source.       *)
(***************************************************************************)
MatShapes == (0..2) \X (0..2)

MatInit ==
    /\ proto = "mat"
    /\ params = Params_default
    /\ ck = NoVal
    /\ rng \in {[tape |-> t, pos |-> 0] : t \in Tapes}
    /\ pc = "new"
    /\ arg = NoVal
    /\ store = << >>
    /\ check = NoVal
    /\ rctx = NoVal
    /\ com = NoVal
    /\ vctx = NoVal
    /\ chal = NoVal
    /\ resp = NoVal
    /\ result = "none"
    /\ accepted = "none"
    /\ tamper = NoVal
    /\ consumed = {}
    /\ sample = NoVal

\* The receiver (shape sa) and the argument (shape sb) of an operation.
MatPair(sa, sb) ==
    LET a == new_with_within(rng, sa[1], sa[2], Params_default.b)
        b == new_with_within(a.rng, sb[1], sb[2], Params_default.b)
    IN  [a |-> a.val, b |-> b.val, rng |-> b.rng]

\* The state after an operation on the pair p: its result, or the abort of
\* its assertion.
MatApplied(kind, p, ok, out) ==
    /\ proto = "mat"
    /\ pc = "new"
    /\ arg' = [kind |-> kind, a |-> p.a, b |-> p.b]
    /\ rng' = p.rng
    /\ IF ok THEN pc' = "applied" /\ sample' = [out |-> out]
             ELSE pc' = "aborted" /\ UNCHANGED sample
    /\ UNCHANGED <<params, ck, proto, store, check>>
    /\ UNCHANGED <<rctx, com, vctx, chal, resp, result, accepted, tamper, consumed>>

\* a.dot(&b)
MatDot(sa, sb) ==
    LET p == MatPair(sa, sb)
    IN  MatApplied("dot", p, dot_ok(p.a, p.b), dot(p.a, p.b))

\* a.add(&b)
MatAdd(sa, sb) ==
    LET p == MatPair(sa, sb)
    IN  MatApplied("add", p, add_ok(p.a, p.b), add(p.a, p.b))

\* a.extend_rows(b)
MatExtendRows(sa, sb) ==
    LET p == MatPair(sa, sb)
    IN  MatApplied("extend_rows", p, extend_rows_ok(p.a, p.b), extend_rows(p.a, p.b))

\* a.extend_cols(b)
MatExtendCols(sa, sb) ==
    LET p == MatPair(sa, sb)
    IN  MatApplied("extend_cols", p, extend_cols_ok(p.a, p.b), extend_cols(p.a, p.b))

MatNext ==
    \/ \E sa \in MatShapes, sb \in MatShapes : MatDot(sa, sb)
    \/ \E sa \in MatShapes, sb \in MatShapes : MatAdd(sa, sb)
    \/ \E sa \in MatShapes, sb \in MatShapes : MatExtendRows(sa, sb)
    \/ \E sa \in MatShapes, sb \in MatShapes : MatExtendCols(sa, sb)

MatSpec == MatInit /\ [][MatNext]_vars

(***************************************************************************)
(* Properties.                                                             *)
(***************************************************************************)
\* The bound of VerifyConstraint: 2 * sigma * floor(sqrt(N)).
VerifyBound == 2 * standard_deviation(params, DegN) * sqrt(DegN)

\* Some ring entry of matrix z has norm_2 above the bound of VerifyConstraint.
ExceedsBound(z) ==
    \E i \in 1..Len(z) : \E j \in 1..Len(z[i]) : norm_2(z[i][j]) > VerifyBound

\* Some entry of some matrix of response r exceeds the bound.
ResponseExceedsBound(r) ==
    CASE proto = "open" -> ExceedsBound(r.z)
      [] proto = "linear" -> ExceedsBound(r.z) \/ ExceedsBound(r.zp)
      [] proto = "sum" -> \/ \E i \in 1..Len(r.zs) : ExceedsBound(r.zs[i])
                          \/ ExceedsBound(r.zp)

\* C1: the (opening, commitment) pair returned by one call of ck.commit
\* verifies: commitment.verify(opening, ck, params) = true.
CommitVerifyRoundTrip ==
    (check # NoVal /\ check.opening = check.commitment) => check.outcome = "true"

CommitVerifyRoundTripWitness ==
    /\ Len(store) = 2
    /\ check # NoVal
    /\ check.opening = 2 /\ check.commitment = 2
    /\ check.outcome = "true"

\* C2: the honest run of the Proof of Opening ends with verify returning true.
OpenCompleteness ==
    (proto = "open" /\ pc = "verified") => result = "true"

\* C3: the honest run of the Proof of Linear Relation ends with verify
\* returning true.
LinearCompleteness ==
    (proto = "linear" /\ pc = "verified") => result = "true"

\* C4: the honest run of the Proof of Sum ends with verify returning true.
SumCompleteness ==
    (proto = "sum" /\ pc = "verified") => result = "true"

\* The response of the honest prover to the challenge of this run.
HonestOpenResponse == OpenProofProver_create_response(rctx, chal)

\* C5 as claimed: once verify accepted z, it rejects z with one coefficient
\* of one entry changed, and z with poly(1, 0, ..., 0) added to every entry.
OpenTamperRejected ==
    (/\ proto = "open" /\ pc = "done" /\ accepted = "true"
     /\ tamper.kind \in {"coeff", "add_one"})
        => result = "false"

\* C5 as amended: once verify accepted z, the altered response z' is rejected
\* exactly when an entry of z' exceeds the norm bound or A1 * z' differs from
\* A1 * z; this is so whenever one coefficient of one of the first n entries
\* (those facing the identity block of A1) was changed.
OpenTamperRejectedIfImageChanges ==
    (/\ proto = "open" /\ pc = "done" /\ accepted = "true"
     /\ tamper.kind \in {"coeff", "add_one"})
        => /\ result = "false" <=>
                \/ ExceedsBound(resp.z)
                \/ dot(ck.a1, resp.z) # dot(ck.a1, HonestOpenResponse.z)
           /\ (tamper.kind = "coeff" /\ tamper.row <= params.n) => result = "false"

OpenTamperRejectedWitness ==
    /\ proto = "open" /\ pc = "done" /\ accepted = "true"
    /\ tamper.kind = "coeff" /\ tamper.row <= params.n
    /\ ~ExceedsBound(resp.z)
    /\ result = "false"

\* C6 as claimed: an opening never verifies against the commitment of
\* another commit call under the same key.
SwappedOpeningRejected ==
    (check # NoVal /\ check.opening # check.commitment) => check.outcome = "false"

\* C6 as amended: an opening is rejected by the commitment of another commit
\* call under the same key exactly when the two commitments differ.
SwappedOpeningRejectedIfDistinct ==
    (check # NoVal /\ check.opening # check.commitment)
        => (check.outcome = "false"
              <=> store[check.opening].commitment # store[check.commitment].commitment)

SwappedOpeningRejectedWitness ==
    /\ check # NoVal
    /\ check.opening # check.commitment
    /\ store[1].opening.x = store[2].opening.x
    /\ check.outcome = "false"

\* C7: verify returns false whenever some ring entry of a response matrix
\* has norm_2 above 2 * sigma * floor(sqrt(N)), whatever the equations give.
NormBoundEnforced ==
    (pc \in {"verified", "done"} /\ ResponseExceedsBound(resp)) => result = "false"

\* An honest Sum response, so one for which every equation holds, whose z'
\* alone exceeds the bound.
NormBoundEnforcedWitness ==
    /\ proto = "sum" /\ pc = "verified"
    /\ \A i \in 1..Len(resp.zs) : ~ExceedsBound(resp.zs[i])
    /\ ExceedsBound(resp.zp)
    /\ result = "false"

\* C8: SumProofVerifier.verify returns false whenever |zs| differs from |ts|
\* or from |cs|.
SumLengthMismatchRejected ==
    (/\ proto = "sum" /\ pc = "done"
     /\ Len(resp.zs) # Len(vctx.ts) \/ Len(resp.zs) # Len(vctx.cs))
        => result = "false"

\* C9: verify returns true or false and never panics, also for a Sum
\* response and context whose lists are empty or of unequal length.
VerifyNeverPanics ==
    pc \in {"verified", "done"} => result \in {"true", "false"}

\* Whether a commit call with arguments a carries a value of length # l.
WrongLength(a) ==
    IF proto = "sum"
    THEN \E i \in 1..Len(a.xs) : Len(a.xs[i]) # params.l
    ELSE Len(a.x) # params.l

\* C10: a commit call (of the key or of any prover) with a value whose
\* length differs from l aborts, and nothing was drawn or produced by then.
CommitAbortsOnWrongLength ==
    [][(arg' # arg /\ WrongLength(arg'))
          => (pc' = "aborted" /\ UNCHANGED <<rng, store, rctx, com>>)]_vars

CommitAbortsOnWrongLengthWitness ==
    /\ proto = "linear" /\ pc = "aborted"
    /\ Len(arg.x) = params.l + 1

\* C11: SumProofProver::commit aborts, with nothing drawn or produced, when gs
\* is empty or |gs| differs from |xs|; whenever it returns, the lists cs, gs
\* and ts of the commitment and the lists openings and ys of the response
\* context all have length |gs|, and gs is the list it was given.
SumCommitPreconditions ==
    [][(proto = "sum" /\ arg' # arg) =>
         /\ (arg'.gs = << >> \/ Len(arg'.gs) # Len(arg'.xs))
               => (pc' = "aborted" /\ UNCHANGED <<rng, rctx, com>>)
         /\ pc' # "aborted"
               => /\ com'.gs = arg'.gs
                  /\ Len(com'.cs) = Len(arg'.gs) /\ Len(com'.ts) = Len(arg'.gs)
                  /\ Len(rctx'.openings) = Len(arg'.gs)
                  /\ Len(rctx'.ys) = Len(arg'.gs)]_vars

SumCommitPreconditionsWitness ==
    /\ proto = "sum" /\ pc = "committed"
    /\ Len(arg.gs) = 2
    /\ Len(com.cs) = 2 /\ Len(rctx.ys) = 2

SumCommitAbortWitness ==
    /\ proto = "sum" /\ pc = "aborted"
    /\ Len(arg.gs) = 2 /\ Len(arg.xs) = 1

\* C12 (as stated): a Params whose modulus is not congruent to 5 modulo 8
\* makes generate_commitment_key abort, so no key, commitment or check
\* comes out of it.
BadModulusAborts ==
    (proto = "commit" /\ pc # "new" /\ DeclaredModulus(params) % 8 # 5)
        => (pc = "aborted" /\ ck = NoVal /\ store = << >> /\ check = NoVal)

\* C12 (amended): the modulus is never inspected.  With a modulus that is
\* not congruent to 5 modulo 8, generate_commitment_key aborts exactly when
\* k < n + l and returns a key otherwise, and commit aborts exactly when
\* len(x) != l and returns a commitment otherwise.
BadModulusNotDetected ==
    [][(proto = "commit" /\ DeclaredModulus(params) % 8 # 5)
         => /\ (pc = "new" /\ pc' # "new")
                => /\ pc' = "aborted" <=> params.k < params.n + params.l
                   /\ pc' # "aborted" => (pc' = "ready" /\ ck' # NoVal)
            /\ (pc = "ready" /\ arg' # arg)
                => /\ pc' = "aborted" <=> Len(arg'.x) # params.l
                   /\ pc' # "aborted" => Len(store') = Len(store) + 1]_vars

BadModulusNotDetectedWitness ==
    /\ proto = "commit" /\ DeclaredModulus(params) % 8 # 5
    /\ pc = "ready" /\ Len(store) = 1
    /\ check # NoVal /\ check.outcome = "true"

\* The layout of a key for the setting p: a1 is n x k with I_n on the left,
\* a2 is l x k and reads [0 | I_l | a2'] with a2' of l x (k - n - l), and
\* the coefficients of the random blocks lie in -q..q.
KeyLayout(key, p) ==
    /\ dim(key.a1) = <<p.n, p.k>>
    /\ dim(key.a2) = <<p.l, p.k>>
    /\ p.k - p.n - p.l >= 0
    /\ \A i \in 1..p.n : \A j \in 1..p.n :
          key.a1[i][j] = IF i = j THEN Polynomial_one ELSE Polynomial_zero
    /\ \A i \in 1..p.l : \A j \in 1..p.n : key.a2[i][j] = Polynomial_zero
    /\ \A i \in 1..p.l : \A j \in 1..p.l :
          key.a2[i][p.n + j] = IF i = j THEN Polynomial_one ELSE Polynomial_zero
    /\ \A i \in 1..p.n : \A j \in (p.n + 1)..p.k : \A c \in Idx :
          key.a1[i][j][c] \in (0 - p.q)..p.q
    /\ \A i \in 1..p.l : \A j \in (p.n + p.l + 1)..p.k : \A c \in Idx :
          key.a2[i][j][c] \in (0 - p.q)..p.q

\* C13 (as stated): for every Params with k > n >= l,
\* generate_commitment_key returns a key of that layout.
KeyLayoutForEveryShape ==
    (proto = "commit" /\ pc # "new"
       /\ params.k > params.n /\ params.n >= params.l)
        => (ck # NoVal /\ KeyLayout(ck, params))

\* C14: the commitment returned by commit is c = [a1; a2] * r + [0_n; x],
\* of (n + l) x 1; c1_c2 splits it into c1 = a1 * r (n x 1) and
\* c2 = a2 * r + x (l x 1); the opening holds x as given, r of k x 1 and
\* f = None.
CommitmentEquation ==
    (proto = "commit" /\ Len(store) >= 1)
        => LET o  == store[1].opening
               c  == store[1].commitment
               cs == c1_c2(c, params)
           IN  /\ dim(c.c) = <<params.n + params.l, 1>>
               /\ cs[1] = dot(ck.a1, o.r)
               /\ cs[2] = add(dot(ck.a2, o.r), from_vec(o.x))
               /\ dim(cs[1]) = <<params.n, 1>>
               /\ dim(cs[2]) = <<params.l, 1>>
               /\ o.x = arg.x
               /\ dim(o.r) = <<params.k, 1>>
               /\ o.f = None

CommitmentEquationWitness ==
    /\ proto = "commit" /\ Len(store) = 1
    /\ params.n = 2 /\ params.l = 2
    /\ store[1].opening.x[2] # Polynomial_zero
    /\ c1_c2(store[1].commitment, params)[2] # dot(ck.a2, store[1].opening.r)

\* The number of coefficients of p that lie in the set vs.
CountIn(p, vs) == Cardinality({i \in Idx : p[i] \in vs})

ChallengeSetZeroKappaWitness ==
    pc = "sampled" /\ sample.kind = "set" /\ params.kappa = 0

\* C16: a polynomial returned by
\* random_polynomial_from_challenge_set_difference is non-zero, has every
\* coefficient in -2..2, and is c1 - c2 for two challenge-set polynomials
\* c1 # c2.
ChallengeDifferenceShape ==
    (pc = "sampled" /\ sample.kind = "difference")
        => /\ sample.out # Polynomial_zero
           /\ \A i \in Idx : sample.out[i] \in (0 - 2)..2
           /\ \A i \in Idx : sample.out[i] = sample.c1[i] - sample.c2[i]
           /\ sample.c1 # sample.c2
           /\ \A c \in {sample.c1, sample.c2} :
                 /\ CountIn(c, {0 - 1, 1}) = params.kappa
                 /\ CountIn(c, {0}) = DegN - params.kappa

ChallengeDifferenceShapeWitness ==
    /\ pc = "sampled" /\ sample.kind = "difference"
    /\ \E i \in Idx : sample.out[i] = 0 - 2
    /\ \E i \in Idx : sample.out[i] = 0

\* C17: standard_deviation(N) is b * 11 * kappa * r for the integer r with
\* r^2 <= k * N < (r + 1)^2 (the root is floored before multiplying); for
\* b = 1, kappa = 36, k = 3 and N = 1024 it is 21780.
SigmaFormula ==
    /\ proto = "commit"
          => \E r \in 0..(params.k * DegN) :
                /\ r * r <= params.k * DegN
                /\ params.k * DegN < (r + 1) * (r + 1)
                /\ standard_deviation(params, DegN)
                      = params.b * 11 * params.kappa * r
    /\ standard_deviation([Params_default EXCEPT !.kappa = 36], 1024) = 21780

SigmaFormulaWitness ==
    /\ proto = "commit" /\ Len(store) = 1
    /\ params.b = 2 /\ params.kappa = DegN
    /\ sqrt(params.k * DegN) * sqrt(params.k * DegN) < params.k * DegN
    /\ check # NoVal

\* C19: once the key is generated, no commit, verify, generate_challenge
\* or create_response changes the key or the parameters: they stay the
\* values the provers and verifiers were built from.
KeyAndParamsImmutable ==
    [][ck # NoVal => (ck' = ck /\ params' = params)]_vars

KeyAndParamsImmutableWitness ==
    /\ proto = "linear" /\ pc = "done"
    /\ ck # NoVal /\ KeyLayout(ck, params)
    /\ consumed # {}

\* A step in which create_response returns the response of the run.
ResponseStep == resp = NoVal /\ resp' # NoVal

\* A step in which verify returns its verdict.
VerdictStep == result' # result /\ result' # "none"

\* The order of one proof run: the challenge is sampled from a commitment
\* that exists and stays fixed afterwards, the response is made from a
\* challenge that exists, and a verdict is given on a response that exists.
LifecycleStep ==
    /\ chal' # chal => /\ com # NoVal /\ com' = com /\ rctx' = rctx
                       /\ resp = NoVal /\ resp' = NoVal
    /\ chal # NoVal => (com' = com /\ chal' = chal)
    /\ ResponseStep => (chal # NoVal /\ result = "none" /\ result' = "none")
    /\ VerdictStep => (resp # NoVal /\ resp' = resp)

Rows(a) == Len(a)

Cols(a) == IF a = << >> THEN 0 ELSE Len(a[1])

\* C21: dot aborts unless the columns of the left matrix are as many as
\* the rows of the right one, add unless both shapes are equal,
\* extend_rows unless the column counts are equal, extend_cols unless the
\* row counts are equal; otherwise the result is m x p, m x n,
\* (m + m') x n and m x (n + n').
MatOpsAbortOnMismatch ==
    (proto = "mat" /\ pc # "new")
        => LET a == arg.a
               b == arg.b
               match ==
                   CASE arg.kind = "dot" -> Cols(a) = Rows(b)
                     [] arg.kind = "add" -> Rows(a) = Rows(b) /\ Cols(a) = Cols(b)
                     [] arg.kind = "extend_rows" -> Cols(a) = Cols(b)
                     [] arg.kind = "extend_cols" -> Rows(a) = Rows(b)
               shape ==
                   CASE arg.kind = "dot" -> <<Rows(a), Cols(b)>>
                     [] arg.kind = "add" -> <<Rows(a), Cols(a)>>
                     [] arg.kind = "extend_rows" -> <<Rows(a) + Rows(b), Cols(a)>>
                     [] arg.kind = "extend_cols" -> <<Rows(a), Cols(a) + Cols(b)>>
           IN  /\ pc = "aborted" <=> ~match
               /\ pc = "applied"
                    => /\ <<Rows(sample.out), Cols(sample.out)>> = shape
                       /\ \A i \in 1..Rows(sample.out) :
                             Len(sample.out[i]) = shape[2]

MatOpsWitness ==
    /\ proto = "mat" /\ pc = "applied" /\ arg.kind = "dot"
    /\ Rows(arg.a) = 2 /\ Cols(arg.a) = 1 /\ Cols(arg.b) = 2
    /\ sample.out[2][2] # Polynomial_zero

MatOpsAbortWitness ==
    /\ proto = "mat" /\ pc = "aborted" /\ arg.kind = "extend_cols"
    /\ Rows(arg.a) = 1 /\ Rows(arg.b) = 2

\* Row i of a1 * z, for a column z: a1[i][1] * z[1] + ... + a1[i][k] * z[k].
RowImage(a, z, i) == DotCell(a, z, i, 1, Len(z))

\* C22: OpenProofVerifier.verify returns true exactly when no entry of z
\* exceeds the bound of VerifyConstraint and, row by row,
\* (A1 * z)[i] = t[i] + c1[i] * d for the t, c1 and d of the context.
OpenVerifyEquation ==
    (proto = "open" /\ pc \in {"verified", "done"})
        => (result = "true" <=>
               /\ ~ExceedsBound(resp.z)
               /\ \A i \in 1..params.n :
                     RowImage(ck.a1, resp.z, i)
                       = Polynomial_add(vctx.t[i],
                                        Polynomial_mul(vctx.c1[i][1], vctx.d)))

OpenVerifyEquationWitness ==
    /\ proto = "open" /\ pc = "done"
    /\ accepted = "true" /\ result = "true"
    /\ resp # HonestOpenResponse

OpenVerifyEquationRejectWitness ==
    /\ proto = "open" /\ pc = "verified" /\ result = "false"
    /\ ExceedsBound(resp.z)
    /\ dot(ck.a1, resp.z)
         = add(from_vec(vctx.t), componentwise_mul(vctx.c1, vctx.d))

\* A1 * z = t + d * c1, row by row.
LinearEquationZ ==
    \A i \in 1..params.n :
        RowImage(ck.a1, resp.z, i)
          = Polynomial_add(vctx.t[i], Polynomial_mul(vctx.d, vctx.c1[i][1]))

\* A1 * z' = t' + d * c1', row by row.
LinearEquationZp ==
    \A i \in 1..params.n :
        RowImage(ck.a1, resp.zp, i)
          = Polynomial_add(vctx.tp[i], Polynomial_mul(vctx.d, vctx.c1p[i][1]))

\* g * (A2 * z) - A2 * z' = d * (g * c2 - c2') + u, row by row.
LinearEquationRelation ==
    \A i \in 1..params.l :
        Polynomial_sub(Polynomial_mul(vctx.g, RowImage(ck.a2, resp.z, i)),
                       RowImage(ck.a2, resp.zp, i))
          = Polynomial_add(
                Polynomial_mul(vctx.d,
                               Polynomial_sub(Polynomial_mul(vctx.g, vctx.c2[i][1]),
                                              vctx.c2p[i][1])),
                vctx.u[i][1])

\* C23: LinearProofVerifier.verify returns true exactly when no entry of
\* z or z' exceeds the bound of VerifyConstraint and the three equalities
\* hold; if any one of them fails it returns false.
LinearVerifyEquations ==
    (proto = "linear" /\ pc \in {"verified", "done"})
        => (result = "true" <=>
               /\ ~ExceedsBound(resp.z) /\ ~ExceedsBound(resp.zp)
               /\ LinearEquationZ /\ LinearEquationZp /\ LinearEquationRelation)

LinearVerifyEquationsWitness ==
    /\ proto = "linear" /\ pc = "done" /\ result = "false"
    /\ ~ExceedsBound(resp.z) /\ ~ExceedsBound(resp.zp)
    /\ LinearEquationZ /\ LinearEquationZp /\ ~LinearEquationRelation

LinearVerifyAcceptWitness ==
    proto = "linear" /\ pc = "verified" /\ result = "true"

RECURSIVE PolySum(_, _)
\* f[1] + ... + f[n] in the ring.
PolySum(f, n) ==
    IF n = 0 THEN Polynomial_zero ELSE Polynomial_add(PolySum(f, n - 1), f[n])

\* C24: the commitments of a prover's commit open under the openings kept
\* in the response context.  Linear: c under opening (value x) and c' under
\* opening_p (value g * x entrywise).  Sum: each cs[i] under openings[i]
\* (value x_i) and cp under opening_p (value sum of g_i * x_i entrywise).
\* Stated of the state commit returns in: no later step changes the
\* commitment, the response context or the key.
ProverCommitmentsOpen ==
    /\ (proto = "linear" /\ pc = "committed")
          => /\ Commitment_verify(com.c, rctx.opening, ck, params)
             /\ Commitment_verify(com.cp, rctx.opening_p, ck, params)
             /\ rctx.opening.x = arg.x
             /\ Len(rctx.opening_p.x) = Len(arg.x)
             /\ \A j \in 1..Len(arg.x) :
                   rctx.opening_p.x[j] = Polynomial_mul(arg.g, arg.x[j])
    /\ (proto = "sum" /\ pc = "committed")
          => /\ Len(com.cs) = Len(arg.xs) /\ Len(rctx.openings) = Len(arg.xs)
             /\ \A i \in 1..Len(arg.xs) :
                   /\ Commitment_verify(com.cs[i], rctx.openings[i], ck, params)
                   /\ rctx.openings[i].x = arg.xs[i]
             /\ Commitment_verify(com.cp, rctx.opening_p, ck, params)
             /\ Len(rctx.opening_p.x) = params.l
             /\ \A j \in 1..params.l :
                   rctx.opening_p.x[j]
                     = PolySum([i \in 1..Len(arg.xs) |->
                                  Polynomial_mul(arg.gs[i], arg.xs[i][j])],
                               Len(arg.xs))

ProverCommitmentsOpenWitness ==
    /\ proto = "sum" /\ pc = "committed" /\ Len(arg.xs) = 2
    /\ arg.gs[1] # arg.gs[2] /\ arg.xs[1] # arg.xs[2]
    /\ rctx.opening_p.x # arg.xs[1] /\ rctx.opening_p.x[1] # Polynomial_zero

ProverCommitmentsOpenLinearWitness ==
    /\ proto = "linear" /\ pc = "committed"
    /\ rctx.opening_p.x # rctx.opening.x

\* f * c = [a1; a2] * r + f * [0_n; x], row by row, for the opening (x, r).
OpeningEquationWithF(c, x, r, f) ==
    /\ Len(c) = params.n + Len(x)
    /\ \A i \in 1..Len(c) :
          Polynomial_mul(f, c[i][1])
            = Polynomial_add(RowImage(StackedKey(ck), r, i),
                             IF i <= params.n THEN Polynomial_zero
                             ELSE Polynomial_mul(f, x[i - params.n]))

\* C25: Commitment.verify gives the same result for an opening with
\* f = None and for the same opening with f = Some(1); with f = Some(f) it
\* returns whether r meets CommitConstraint and
\* componentwise_mul(c, f) = A * r + componentwise_mul([0_n; x], f).
NoneIsIdentity ==
    /\ check # NoVal
          => LET o == store[check.opening].opening
                 c == store[check.commitment].commitment
             IN  Commitment_verify(c, [o EXCEPT !.f = None], ck, params)
                   = Commitment_verify(c, [o EXCEPT !.f = Some(Polynomial_one)],
                                       ck, params)
    /\ (check # NoVal /\ "f" \in DOMAIN check)
          => LET o == store[check.opening].opening
                 c == store[check.commitment].commitment.c
             IN  check.outcome = "true" <=>
                    /\ check_commit_constraint(params, o.r)
                    /\ OpeningEquationWithF(c, o.x, o.r, check.f[1])

NoneIsIdentityWitness ==
    /\ check # NoVal /\ "f" \in DOMAIN check
    /\ check.f = Some(Polynomial_one)
    /\ check.opening # check.commitment /\ check.outcome = "false"

NoneIsIdentityAcceptWitness ==
    /\ check # NoVal /\ "f" \in DOMAIN check
    /\ check.f = Some(Polynomial_one)
    /\ check.opening = check.commitment /\ check.outcome = "true"

NoneIsIdentityOtherFWitness ==
    /\ check # NoVal /\ "f" \in DOMAIN check
    /\ check.f # Some(Polynomial_one)
    /\ check.opening = check.commitment /\ check.outcome = "false"

\* The polynomials with every coefficient in -b..b.
PolysWithin(b) == [Idx -> (0 - b)..b]

\* C26: for b >= 1 and kappa >= 1 every polynomial with coefficients in
\* -b..b has norm_2 <= 4 * sigma * floor(sqrt(N)), so every r drawn by
\* commit meets CommitConstraint and a commit that returns has made
\* exactly one draw of r (k * N coefficients).
CommitLoopExitsAtOnce ==
    [][(proto = "commit" /\ pc = "ready" /\ Len(store') = Len(store) + 1)
         => /\ \A p \in PolysWithin(params.b) :
                  norm_2(p) <= 4 * (params.b * 11 * params.kappa
                                      * sqrt(params.k * DegN)) * sqrt(DegN)
            /\ rng' = Skip(rng, params.k * DegN)
            /\ \A i \in 1..params.k : \A c \in Idx :
                  store'[Len(store')].opening.r[i][1][c]
                    = random_range(Word(rng, (i - 1) * DegN + c - 1),
                                   0 - params.b, params.b)]_vars

CommitLoopExitsAtOnceWitness ==
    /\ proto = "commit" /\ Len(store) = 1
    /\ params.b = 2 /\ params.k = 4
    /\ \E i \in 1..params.k : norm_2(store[1].opening.r[i][1]) >= 1

\* C27: when one response context of a Proof of Opening is answered for
\* two challenges d # d2 and both responses z, z2 pass VerifyConstraint,
\* then z - z2 = componentwise_mul(r, d - d2), and Commitment.verify
\* accepts the opening (x, z - z2, Some(d - d2)) against the commitment c:
\* every entry of z - z2 has norm_2 <= 4 * sigma * floor(sqrt(N)) and
\* (d - d2) * c = A * (z - z2) + (d - d2) * [0_n; x] holds.
ExtractionRelation ==
    (/\ proto = "open" /\ pc = "extracted"
     /\ ~ExceedsBound(resp.z) /\ ~ExceedsBound(sample.response.z))
        => LET f == [i \in Idx |-> Zq(chal.d[i] - sample.challenge.d[i])]
               o == check.opening
           IN  /\ \A i \in 1..params.k :
                     Polynomial_sub(resp.z[i][1], sample.response.z[i][1])
                       = Polynomial_mul(rctx.opening.r[i][1], f)
               /\ o.x = arg.x /\ o.f = Some(f)
               /\ \A i \in 1..params.k :
                     /\ o.r[i][1] = Polynomial_mul(f, rctx.opening.r[i][1])
                     /\ norm_2(o.r[i][1]) <= 2 * VerifyBound
               /\ OpeningEquationWithF(com.c.c, o.x, o.r, f)
               /\ check.outcome = "true"

ExtractionRelationWitness ==
    /\ proto = "open" /\ pc = "extracted"
    /\ ~ExceedsBound(resp.z) /\ ~ExceedsBound(sample.response.z)
    /\ check.outcome = "true"
    /\ check.opening.f \notin {Some(Polynomial_one), Some(Polynomial_zero)}
    /\ \E i \in 1..params.k : check.opening.r[i][1] # Polynomial_zero
    /\ arg.x[1] # Polynomial_one

\* The commitments of a Proof of Opening that agree with commitment on t
\* and on the top n rows of c and differ from it in the bottom l rows: the
\* bottom rows are shifted by a scalar, or replaced by the top rows or by
\* zero rows.
OtherMessageParts(commitment, n) ==
    LET top    == split_rows(commitment.c.c, n)[1]
        bottom == split_rows(commitment.c.c, n)[2]
        rows   == {[i \in 1..Len(bottom) |-> <<Polynomial_add(bottom[i][1], s)>>] :
                        s \in Scalars}
                  \cup {[i \in 1..Len(bottom) |-> <<Polynomial_zero>>]}
                  \cup (IF Len(top) = Len(bottom) THEN {top} ELSE {})
    IN  {[commitment EXCEPT !.c.c = extend_rows(top, b)] : b \in rows \ {bottom}}

\* C28: the Proof of Opening does not look at the message part of the
\* commitment: whenever verify has returned a result for a response z and
\* the context made by generate_challenge from the commitment, verify
\* returns the same result for z and the context made, from the same
\* entropy and so with the same challenge d, from any commitment that has
\* the same t and the same top n rows of c but other bottom l rows.
OpenIgnoresMessagePart ==
    (proto = "open" /\ pc \in {"verified", "done"})
        => \A p \in 0..(TapeLen - 1) :
             LET r   == [rng EXCEPT !.pos = p]
                 out == OpenProofVerifier_generate_challenge(params, r, com)
             IN  out.context = vctx
                   => \A other \in OtherMessageParts(com, params.n) :
                        LET alt == OpenProofVerifier_generate_challenge(params, r, other)
                        IN  /\ alt.challenge = chal
                            /\ Outcome(OpenProofVerifier_verify(ck, params, resp,
                                                               alt.context))
                                  = result

OpenIgnoresMessagePartWitness ==
    /\ proto = "open" /\ pc = "verified" /\ result = "true"
    /\ Cardinality(OtherMessageParts(com, params.n)) >= 3
    /\ \E p \in 0..(TapeLen - 1) :
          OpenProofVerifier_generate_challenge(params, [rng EXCEPT !.pos = p], com).context
            = vctx

OpenIgnoresMessagePartRejectWitness ==
    /\ proto = "open" /\ pc = "done" /\ result = "false"
    /\ \E p \in 0..(TapeLen - 1) :
          OpenProofVerifier_generate_challenge(params, [rng EXCEPT !.pos = p], com).context
            = vctx

\* The contexts, commitments and responses of a Proof of Sum with one term,
\* read as those of a Proof of Linear Relation.
AsLinearResponseContext(c) ==
    [opening |-> c.openings[1], opening_p |-> c.opening_p,
     y |-> c.ys[1], yp |-> c.yp]

AsLinearCommitment(c) ==
    [c |-> c.cs[1], cp |-> c.cp, g |-> c.gs[1], t |-> c.ts[1],
     tp |-> c.tp, u |-> c.u]

AsLinearVerificationContext(c) ==
    [c1 |-> c.cs[1][1], c2 |-> c.cs[1][2], c1p |-> c.c1p, c2p |-> c.c2p,
     g |-> c.gs[1], t |-> c.ts[1], tp |-> c.tp, u |-> c.u, d |-> c.d]

AsLinearResponse(r) == [z |-> r.zs[1], zp |-> r.zp]

\* Every list of the Proof of Sum context or response has one element.
SingleTerm(c, names) == \A f \in names : Len(c[f]) = 1

\* C29: a Proof of Sum with one scalar g and one value x coincides with
\* the Proof of Linear Relation of g and x: from the same entropy, commit
\* gives the same c, c', t, t', u, openings and masks and leaves the
\* entropy source in the same state; generate_challenge gives the same
\* challenge and context; create_response gives zs = [z] and the same z';
\* and SumProofVerifier.verify accepts ([z], z') exactly when
\* LinearProofVerifier.verify accepts (z, z').
SingleTermSumIsLinear ==
    (/\ proto = "sum"
     /\ pc \in {"committed", "challenged", "responded", "verified", "tampered", "done"}
     /\ Len(arg.gs) = 1 /\ Len(arg.xs) = 1)
        => /\ pc = "committed"
                => \A p \in 0..(TapeLen - 1) :
                 LET r   == [rng EXCEPT !.pos = p]
                     s   == SumProofProver_commit(ck, params, r, arg.gs, arg.xs)
                     lin == LinearProofProver_commit(ck, params, r, arg.gs[1], arg.xs[1])
                 IN  (s.context = rctx /\ s.commitment = com)
                       => /\ SingleTerm(rctx, {"openings", "ys"})
                          /\ SingleTerm(com, {"cs", "gs", "ts"})
                          /\ lin.context = AsLinearResponseContext(rctx)
                          /\ lin.commitment = AsLinearCommitment(com)
                          /\ lin.rng = s.rng
           /\ pc = "challenged"
                => \A p \in 0..(TapeLen - 1) :
                     LET r   == [rng EXCEPT !.pos = p]
                         s   == SumProofVerifier_generate_challenge(params, r, com)
                         lin == LinearProofVerifier_generate_challenge(
                                    params, r, AsLinearCommitment(com))
                     IN  (s.context = vctx /\ s.challenge = chal)
                           => /\ lin.context = AsLinearVerificationContext(vctx)
                              /\ lin.challenge = chal
                              /\ lin.rng = s.rng
           /\ pc = "responded"
                => /\ Len(resp.zs) = 1
                   /\ LinearProofProver_create_response(
                          AsLinearResponseContext(rctx), chal)
                        = AsLinearResponse(resp)
           /\ (/\ pc \in {"verified", "done"}
               /\ Len(resp.zs) = 1
               /\ SingleTerm(vctx, {"cs", "gs", "ts"}))
                => (result = "true"
                      <=> LinearProofVerifier_verify(
                              ck, params, AsLinearResponse(resp),
                              AsLinearVerificationContext(vctx)))

SingleTermSumIsLinearWitness ==
    /\ proto = "sum" /\ pc = "verified" /\ result = "true"
    /\ Len(arg.gs) = 1 /\ Len(arg.xs) = 1
    /\ arg.gs[1] # Polynomial_one
    /\ \E p \in 0..(TapeLen - 1) :
          LET s == SumProofProver_commit(ck, params, [rng EXCEPT !.pos = p],
                                         arg.gs, arg.xs)
          IN  s.context = rctx /\ s.commitment = com
    /\ rctx.ys[1] # rctx.yp

SingleTermSumIsLinearRejectWitness ==
    /\ proto = "sum" /\ pc = "done" /\ result = "false"
    /\ Len(arg.gs) = 1 /\ Len(arg.xs) = 1
    /\ Len(resp.zs) = 1 /\ SingleTerm(vctx, {"cs", "gs", "ts"})
    /\ check_verify_constraint(params, resp.zs[1])
    /\ check_verify_constraint(params, resp.zp)

\* C30, as stated: for every kappa <= N, under a fair entropy source, the
\* retry loop of random_polynomial_from_challenge_set_difference, which
\* keeps c1 and redraws c2 until c1 != c2, eventually returns.
DifferenceTerminates ==
    (proto = "sample" /\ pc = "drawing" /\ params.kappa <= DegN)
        ~> (pc = "sampled")

\* C30, amended: for every kappa with 1 <= kappa <= N, under a fair entropy
\* source, the retry loop eventually returns, with a c2 that differs from
\* c1.  (For kappa = 0 both draws are always the zero polynomial and the
\* loop never returns.)
DifferenceTerminatesForPositiveKappa ==
    (/\ proto = "sample" /\ pc = "drawing"
     /\ params.kappa >= 1 /\ params.kappa <= DegN)
        ~> (pc = "sampled" /\ sample.c2 # sample.c1)

DifferenceTerminatesWitness ==
    /\ proto = "sample" /\ pc = "sampled" /\ sample.kind = "difference"
    /\ params.kappa = DegN
    /\ sample.out # Polynomial_zero
    /\ \E i \in Idx : sample.out[i] = 0

=============================================================================
